---------------------------- MODULE Spec2Model ----------------------------
(***************************************************************************)
(* Model of src/server.js: the POST /api/build handler and the background  *)
(* run processBuildRequest (round 1 build, round 2 revise, post-round      *)
(* commit read, notification retry loop), together with the hosting        *)
(* platform, the generation service and the callback endpoint it calls.    *)
(*                                                                         *)
(* Every await of processBuildRequest is one action: the action is the     *)
(* return of the awaited call (with its effect on the hosting platform)    *)
(* followed by the synchronous code up to the next await, which issues the *)
(* next call.  log[r] is the call-order instrumentation of run r.          *)
(*                                                                         *)
(* Spec is the server with MaxRuns requests for any task; SpecRacing is    *)
(* the server with MaxRacing requests of one caller for one task, whose    *)
(* evaluation endpoint accepts every POST; SpecFence applies the fence     *)
(* strip of the generation response to a bounded set of responses.         *)
(***************************************************************************)
EXTENDS Integers, Sequences, FiniteSets, TLC

\* ------------------------------------------------------------------ bounds
\* Requests received in a behaviour of Spec, and in one of SpecRacing.
MaxRuns == 1
MaxRacing == 2

Runs == 1..(IF MaxRacing > MaxRuns THEN MaxRacing ELSE MaxRuns)
Tasks == {"t1", "t2"}
\* The task all requests of SpecRacing name.
RacingTask == "t1"
Rounds == {1, 2, 3}
Secrets == {"good", "bad"}
\* The callers: what a request says of who sent it and where to report.
Callers ==
    { [email |-> "a@example.com", nonce |-> "n1", evaluation_url |-> "https://eval/a"],
      [email |-> "b@example.com", nonce |-> "n2", evaluation_url |-> "https://eval/b"] }
\* The caller of the requests of SpecRacing.
RacingCaller == "a@example.com"

\* The longest interior of a generation response.
MaxLen == 2

\* ------------------------------------------------------- program constants
\* process.env.STUDENT_SECRET
STUDENT_SECRET == "good"
\* for (let i = 0; i < 4; i++)
MaxAttempts == 4
\* setTimeout(resolve, 5000)
PropagationDelayMs == 5000
\* Math.pow(2, i) * 1000
BackoffBase == 2
BackoffUnitMs == 1000

INDEX == "index.html"
README == "README.md"
LICENSE == "LICENSE"
Paths == {INDEX, README, LICENSE}

VARIABLES
    nreq,   \* number of requests the handler has received
    req,    \* req[r]: the body of request r
    resp,   \* resp[r]: the HTTP status sent for request r (0: none yet)
    run,    \* run[r]: the locals of processBuildRequest for request r
    log,    \* log[r]: the calls, returns and timers of request r, in order
    repo,   \* repo[t]: the hosted project named t
    fence   \* a generation response and what the fence strip makes of it

vars == <<nreq, req, resp, run, log, repo, fence>>

\* --------------------------------------------------------------- log events
\* No notification body: the value of the locals and events that carry none.
NoPayload == [email |-> "", task |-> "", round |-> 0, nonce |-> "",
              repo_url |-> <<>>, commit_sha |-> 0, pages_url |-> <<>>]

Ev(op, ev, rp, path, arg) ==
    [op |-> op, ev |-> ev, repo |-> rp, path |-> path, arg |-> arg, vis |-> "",
     was |-> 0, url |-> "", data |-> NoPayload]

NoBody == [secret |-> "", task |-> "", round |-> 0, email |-> "", nonce |-> "",
           evaluation_url |-> ""]
NoRun == [pc |-> "none", login |-> "", sha |-> 0, html |-> 0, commit |-> 0,
          payload |-> NoPayload, i |-> 0, success |-> FALSE, err |-> ""]

\* ------------------------------------------------- hosting platform state
NoFile == [ver |-> 0, content |-> 0]
Absent == [exists |-> FALSE, files |-> [p \in Paths |-> NoFile],
           pages |-> FALSE, head |-> 0]
\* A project as an earlier round-1 run left it: three files, three commits.
Built == [exists |-> TRUE,
          files |-> (INDEX :> [ver |-> 1, content |-> 0]) @@
                    (README :> [ver |-> 2, content |-> 0]) @@
                    (LICENSE :> [ver |-> 3, content |-> 0]),
          pages |-> TRUE, head |-> 3]

InitServer ==
    /\ nreq = 0
    /\ req = [r \in Runs |-> NoBody]
    /\ resp = [r \in Runs |-> 0]
    /\ run = [r \in Runs |-> NoRun]
    /\ log = [r \in Runs |-> <<>>]
    /\ \E s \in {Absent, Built} :
         repo = [t \in Tasks |-> IF t = RacingTask THEN s ELSE Built]

\* No generation response under study.
NoFence == [text |-> <<>>, html |-> <<>>, done |-> FALSE]

Init == InitServer /\ fence = NoFence

\* ------------------------------------------- hosting platform (contract)
\* create-project(name, visibility): fails when the name is taken.
CreateAllowed(t) == ~repo[t].exists
CreateProject(t) == [repo EXCEPT ![t] = [Absent EXCEPT !.exists = TRUE]]

\* get-file(path) -> content + version token: fails when there is no file.
GetFileAllowed(t, p) == repo[t].exists /\ repo[t].files[p].ver # 0

\* upsert-file(path, content, optional prior-version token): without a token
\* (0) it succeeds as a fresh write; with a token it fails when the remote
\* version has moved.
UpsertAllowed(t, p, sha) ==
    repo[t].exists /\ (sha = 0 \/ sha = repo[t].files[p].ver)
\* A write is one more commit on the default branch; the file's new version
\* token is that commit's.
UpsertFile(t, p, content) ==
    [repo EXCEPT ![t].head = @ + 1,
                 ![t].files[p] = [ver |-> repo[t].head + 1, content |-> content]]

\* enable-static-hosting(branch, path)
PagesAllowed(t) == repo[t].exists
EnablePages(t) == [repo EXCEPT ![t].pages = TRUE]

\* get-latest-commit(branch) -> commit id: fails on a branch with no commit.
GetCommitAllowed(t) == repo[t].exists /\ repo[t].head > 0

\* The account the server's token authenticates as.
Login == "owner"

\* ------------------------------------------------------------ run helpers
Call(op, t, path, arg) == Ev(op, "call", t, path, arg)
Ok(op, t, path, arg) == Ev(op, "ok", t, path, arg)
Fail(op, t, path) == Ev(op, "fail", t, path, 0)
\* The return of an upsert, with the version the platform held for the file
\* when it handled the write; a successful write returns its commit.
UpsertOk(t, path) ==
    [Ok("upsert", t, path, repo[t].head + 1) EXCEPT !.was = repo[t].files[path].ver]
UpsertFail(t, path) ==
    [Fail("upsert", t, path) EXCEPT !.was = repo[t].files[path].ver]

Step(r, rec, evs) ==
    /\ run' = [run EXCEPT ![r] = rec]
    /\ log' = [log EXCEPT ![r] = @ \o evs]

\* Mutant of Caught: the rejection is swallowed and the run goes on to the
\* post-round steps.
CaughtContinues(r) == [run[r] EXCEPT !.pc = "commit"]

\* } catch (error) { console.error('An error occurred ...') }
Caught(r) == [run[r] EXCEPT !.pc = "aborted", !.err = "build_error"]

\* Mutant of Throw: the catch block also answers the caller with a 500.
ThrowResponds(r, ev) ==
    /\ Step(r, [run[r] EXCEPT !.pc = "aborted", !.err = "build_error"],
            << ev, Ev("console", "build_error", "", "", 0),
               Ev("respond", "send", "", "", 500) >>)
    /\ resp' = [resp EXCEPT ![r] = 500]
    /\ UNCHANGED <<nreq, req, repo, fence>>

\* An awaited call of run r rejects: control passes to the catch block.
Throw(r, ev) ==
    /\ Step(r, Caught(r), <<ev, Ev("console", "build_error", "", "", 0)>>)
    /\ UNCHANGED <<nreq, req, resp, repo, fence>>

\* ------------------------------------------------------- request intake
\* Mutant of InvalidSecret: the comparison never rejects.
InvalidSecretNever(body) == FALSE

\* Mutant of InvalidSecret: a repeated submission of a task and round is turned
\* away like a wrong secret.
InvalidSecretOrDuplicate(body) ==
    \/ body.secret # STUDENT_SECRET
    \/ \E q \in 1..nreq : req[q].task = body.task /\ req[q].round = body.round

\* if (req.body.secret !== process.env.STUDENT_SECRET)
InvalidSecret(body) == body.secret # STUDENT_SECRET

\* Mutant of AcceptedLog: processBuildRequest is called before the response
\* is sent.
AcceptedLogDispatchFirst(body) ==
    << Ev("identity", "call", "", "", 0), Ev("respond", "send", "", "", 200) >>

\* res.status(200).json(...); processBuildRequest(req.body), which runs up to
\* its first await: octokit.users.getAuthenticated() is issued.
AcceptedLog(body) ==
    << Ev("respond", "send", "", "", 200), Call("identity", "", "", 0) >>

\* app.post('/api/build', (req, res) => { ... })
PostBuild(body, max) ==
    /\ nreq < max
    /\ nreq' = nreq + 1
    /\ req' = [req EXCEPT ![nreq + 1] = body]
    /\ IF InvalidSecret(body)
       THEN /\ resp' = [resp EXCEPT ![nreq + 1] = 403]
            /\ log' = [log EXCEPT ![nreq + 1] =
                          << Ev("console", "invalid_secret", "", "", 0),
                             Ev("respond", "send", "", "", 403) >>]
            /\ UNCHANGED run
       ELSE /\ resp' = [resp EXCEPT ![nreq + 1] = 200]
            /\ log' = [log EXCEPT ![nreq + 1] = AcceptedLog(body)]
            /\ run' = [run EXCEPT ![nreq + 1] = [NoRun EXCEPT !.pc = "identity"]]
    /\ UNCHANGED <<repo, fence>>

\* ---------------------------------------------------- processBuildRequest
\* Mutant of Task: every run works on one and the same project.
TaskShared(r) == RacingTask

\* const repoName = body.task;
Task(r) == req[r].task

\* const { data: { login } } = await octokit.users.getAuthenticated();
\* then the round dispatch: if (body.round === 1) ... else if (=== 2) ...
Identity(r) ==
    /\ run[r].pc = "identity"
    /\ \E fail \in BOOLEAN :
         IF fail
         THEN Throw(r, Fail("identity", "", ""))
         ELSE /\ IF req[r].round = 1
                 THEN Step(r, [run[r] EXCEPT !.login = Login, !.pc = "r1_generate"],
                           << Ok("identity", "", "", 0),
                              Call("generate", "", "", 0) >>)
                 ELSE IF req[r].round = 2
                 THEN Step(r, [run[r] EXCEPT !.login = Login, !.pc = "r2_get"],
                           << Ok("identity", "", "", 0),
                              Call("getfile", Task(r), INDEX, 0) >>)
                 ELSE Step(r, [run[r] EXCEPT !.login = Login, !.pc = "commit"],
                           << Ok("identity", "", "", 0),
                              Call("getcommit", Task(r), "", 0) >>)
              /\ UNCHANGED <<nreq, req, resp, repo, fence>>

\* name: repoName, private: false
CreateCall(r) == [Call("create", Task(r), "", 0) EXCEPT !.vis = "public"]

\* const result = await model.generateContent(llmPrompt); the text of run r
\* is the document r; then octokit.repos.createForAuthenticatedUser is issued.
R1Generate(r) ==
    /\ run[r].pc = "r1_generate"
    /\ \E fail \in BOOLEAN :
         IF fail
         THEN Throw(r, Fail("generate", "", ""))
         ELSE /\ Step(r, [run[r] EXCEPT !.pc = "r1_create", !.html = r],
                      << Ok("generate", "", "", r), CreateCall(r) >>)
              /\ UNCHANGED <<nreq, req, resp, repo, fence>>

\* Mutant of R1Create: a name that is taken is not an error, the run goes on
\* to write into the project that exists.
R1CreateOrReuse(r) ==
    /\ run[r].pc = "r1_create"
    /\ \E fail \in BOOLEAN :
         IF fail
         THEN Throw(r, Fail("create", req[r].task, ""))
         ELSE /\ repo' = IF CreateAllowed(req[r].task)
                         THEN CreateProject(req[r].task)
                         ELSE repo
              /\ Step(r, [run[r] EXCEPT !.pc = "r1_index"],
                      << Ev("create", IF CreateAllowed(req[r].task) THEN "ok" ELSE "fail",
                            req[r].task, "", 0),
                         Ev("upsert", "call", req[r].task, INDEX, 0) >>)
              /\ UNCHANGED <<nreq, req, resp, fence>>

\* await octokit.repos.createForAuthenticatedUser({...}); then the first
\* createOrUpdateFileContents (index.html, no sha) is issued.
R1Create(r) ==
    /\ run[r].pc = "r1_create"
    /\ \E fail \in BOOLEAN :
         IF fail \/ ~CreateAllowed(Task(r))
         THEN Throw(r, Fail("create", Task(r), ""))
         ELSE /\ repo' = CreateProject(Task(r))
              /\ Step(r, [run[r] EXCEPT !.pc = "r1_index"],
                      << Ok("create", Task(r), "", 0),
                         Call("upsert", Task(r), INDEX, 0) >>)
              /\ UNCHANGED <<nreq, req, resp, fence>>

\* Mutant of R1Writes: README.md is written before index.html.
R1WritesReadmeFirst == << README, INDEX, LICENSE >>

\* The round-1 writes, in program order, and the state awaiting each.
R1Writes == << INDEX, README, LICENSE >>
R1WritePc == << "r1_index", "r1_readme", "r1_license" >>

\* What run r writes to path p: the generated document, or fixed text.
R1Content(r, p) == IF p = INDEX THEN run[r].html ELSE 0

\* Mutant of R1AfterWrite: the README.md write is left out.
R1AfterWriteNoReadme(r, k) ==
    IF k = 1
    THEN [pc |-> "r1_license", call |-> Ev("upsert", "call", req[r].task, LICENSE, 0)]
    ELSE [pc |-> "r1_pages", call |-> Ev("pages", "call", req[r].task, "", 0)]

\* The call issued after the k-th round-1 write: the next write, or
\* octokit.repos.createPagesSite after the last.
R1AfterWrite(r, k) ==
    IF k < Len(R1Writes)
    THEN [pc |-> R1WritePc[k + 1], call |-> Call("upsert", Task(r), R1Writes[k + 1], 0)]
    ELSE [pc |-> "r1_pages", call |-> Call("pages", Task(r), "", 0)]

\* await octokit.repos.createOrUpdateFileContents({... path, content })
R1Write(r, k) ==
    /\ run[r].pc = R1WritePc[k]
    /\ \E fail \in BOOLEAN :
         IF fail \/ ~UpsertAllowed(Task(r), R1Writes[k], 0)
         THEN Throw(r, UpsertFail(Task(r), R1Writes[k]))
         ELSE /\ repo' = UpsertFile(Task(r), R1Writes[k], R1Content(r, R1Writes[k]))
              /\ Step(r, [run[r] EXCEPT !.pc = R1AfterWrite(r, k).pc],
                      << UpsertOk(Task(r), R1Writes[k]),
                         R1AfterWrite(r, k).call >>)
              /\ UNCHANGED <<nreq, req, resp, fence>>

\* await octokit.repos.createPagesSite({...}); then getCommit is issued.
R1Pages(r) ==
    /\ run[r].pc = "r1_pages"
    /\ \E fail \in BOOLEAN :
         IF fail \/ ~PagesAllowed(Task(r))
         THEN Throw(r, Fail("pages", Task(r), ""))
         ELSE /\ repo' = EnablePages(Task(r))
              /\ Step(r, [run[r] EXCEPT !.pc = "commit"],
                      << Ok("pages", Task(r), "", 0),
                         Call("getcommit", Task(r), "", 0) >>)
              /\ UNCHANGED <<nreq, req, resp, fence>>

\* const { data: existingFile } = await octokit.repos.getContent({... path:
\* 'index.html' }); existingFile.sha is kept; the generation call is issued.
R2Get(r) ==
    /\ run[r].pc = "r2_get"
    /\ \E fail \in BOOLEAN :
         IF fail \/ ~GetFileAllowed(Task(r), INDEX)
         THEN Throw(r, Fail("getfile", Task(r), INDEX))
         ELSE /\ Step(r, [run[r] EXCEPT !.pc = "r2_generate",
                                        !.sha = repo[Task(r)].files[INDEX].ver],
                      << Ok("getfile", Task(r), INDEX, repo[Task(r)].files[INDEX].ver),
                         Call("generate", "", "", 0) >>)
              /\ UNCHANGED <<nreq, req, resp, repo, fence>>

\* Mutant of UpsertSha: the write carries no version token.
UpsertShaOmitted(r) == 0

\* Mutant of UpsertSha: the token is read again when the write is made.
UpsertShaReread(r) == repo[req[r].task].files[INDEX].ver

\* sha: existingFile.sha
UpsertSha(r) == run[r].sha

\* const result = await model.generateContent(revisionPrompt); then the
\* createOrUpdateFileContents of index.html with sha is issued.
R2Generate(r) ==
    /\ run[r].pc = "r2_generate"
    /\ \E fail \in BOOLEAN :
         IF fail
         THEN Throw(r, Fail("generate", "", ""))
         ELSE /\ Step(r, [run[r] EXCEPT !.pc = "r2_upsert", !.html = r],
                      << Ok("generate", "", "", r),
                         Call("upsert", Task(r), INDEX, UpsertSha(r)) >>)
              /\ UNCHANGED <<nreq, req, resp, repo, fence>>

\* await octokit.repos.createOrUpdateFileContents({... sha }); then getCommit
\* is issued.
R2Upsert(r) ==
    /\ run[r].pc = "r2_upsert"
    /\ \E fail \in BOOLEAN :
         IF fail \/ ~UpsertAllowed(Task(r), INDEX, UpsertSha(r))
         THEN Throw(r, UpsertFail(Task(r), INDEX))
         ELSE /\ repo' = UpsertFile(Task(r), INDEX, run[r].html)
              /\ Step(r, [run[r] EXCEPT !.pc = "commit"],
                      << UpsertOk(Task(r), INDEX),
                         Call("getcommit", Task(r), "", 0) >>)
              /\ UNCHANGED <<nreq, req, resp, fence>>

\* ------------------------------------------------------ notification loop
\* Mutant of LoopCond: one iteration too many.
LoopCondOffByOne(i) == i <= MaxAttempts

\* for (let i = 0; i < 4; i++)
LoopCond(i) == i < MaxAttempts

\* Mutant of BackoffMs: linear instead of exponential.
BackoffMsLinear(i) == (i + 1) * BackoffUnitMs

\* Math.pow(2, i) * 1000
BackoffMs(i) == (BackoffBase ^ i) * BackoffUnitMs

\* Mutant of AfterLoop: after the loop the run awaits something that never
\* settles.
AfterLoopNeverSettles(rec) == [run |-> [rec EXCEPT !.pc = "pending"], evs |-> <<>>]

\* if (!notificationSuccess) console.error('Failed to notify ...'); the run ends.
AfterLoop(rec) ==
    IF rec.success
    THEN [run |-> [rec EXCEPT !.pc = "done"], evs |-> <<>>]
    ELSE [run |-> [rec EXCEPT !.pc = "done", !.err = "notify_failed"],
          evs |-> << Ev("console", "final_failure", "", "", 0) >>]

\* axios.post(body.evaluation_url, notificationPayload), attempt rec.i + 1
PostCall(r, rec) ==
    [Call("post", "", "", rec.i + 1) EXCEPT !.url = req[r].evaluation_url,
                                            !.data = rec.payload]

\* The loop test with counter rec.i: one more axios.post, or the loop's exit.
LoopHead(r, rec) ==
    IF LoopCond(rec.i)
    THEN [run |-> [rec EXCEPT !.pc = "notify"], evs |-> << PostCall(r, rec) >>]
    ELSE AfterLoop(rec)

\* repo_url: https://github.com/${login}/${repoName}
RepoUrl(login, t) == << "https://github.com/", login, "/", t >>

\* pagesUrl: https://${login}.github.io/${repoName}/
PagesUrl(login, t) == << "https://", login, ".github.io/", t, "/" >>

\* Mutant of NotificationPayload: the commit reported is the version token
\* read at the start of the round, not the latest commit read after it.
NotificationPayloadStaleSha(r, rec) ==
    [email |-> req[r].email, task |-> req[r].task, round |-> req[r].round,
     nonce |-> req[r].nonce, repo_url |-> RepoUrl(rec.login, req[r].task),
     commit_sha |-> rec.sha, pages_url |-> PagesUrl(rec.login, req[r].task)]

\* Mutant of NotificationPayload: the nonce is left out.
NotificationPayloadNoNonce(r, rec) ==
    [email |-> req[r].email, task |-> req[r].task, round |-> req[r].round,
     nonce |-> "", repo_url |-> RepoUrl(rec.login, req[r].task),
     commit_sha |-> rec.commit, pages_url |-> PagesUrl(rec.login, req[r].task)]

\* const notificationPayload = { email: body.email, ... pages_url: pagesUrl }
NotificationPayload(r, rec) ==
    [email |-> req[r].email, task |-> req[r].task, round |-> req[r].round,
     nonce |-> req[r].nonce, repo_url |-> RepoUrl(rec.login, Task(r)),
     commit_sha |-> rec.commit, pages_url |-> PagesUrl(rec.login, Task(r))]

\* let notificationSuccess = false; for (let i = 0; ...: the loop is entered
\* with the payload built.
EnterLoop(r, rec) == LoopHead(r, [rec EXCEPT !.payload = NotificationPayload(r, rec)])

\* Mutant of OnDelivered: the break is missing, the loop goes on.
OnDeliveredNoBreak(r, rec) == LoopHead(r, [rec EXCEPT !.success = TRUE, !.i = @ + 1])

\* notificationSuccess = true; break;
OnDelivered(r, rec) == AfterLoop([rec EXCEPT !.success = TRUE])

\* Mutant of NeedsDelay: every round waits.
NeedsDelayAlways(r) == req[r].round \in Rounds

\* if (body.round === 1) before the propagation timer
NeedsDelay(r) == req[r].round = 1

\* const { data: commitData } = await octokit.repos.getCommit({...}); then,
\* for round 1, the 5000 ms timer; otherwise the first axios.post.
GetCommit(r) ==
    /\ run[r].pc = "commit"
    /\ \E fail \in BOOLEAN :
         IF fail \/ ~GetCommitAllowed(Task(r))
         THEN Throw(r, Fail("getcommit", Task(r), ""))
         ELSE LET rec == [run[r] EXCEPT !.commit = repo[Task(r)].head]
                  got == Ok("getcommit", Task(r), "", repo[Task(r)].head)
              IN  /\ IF NeedsDelay(r)
                     THEN Step(r, [rec EXCEPT !.pc = "delay"],
                               << got, Ev("delay", "start", "", "", PropagationDelayMs) >>)
                     ELSE Step(r, EnterLoop(r, rec).run, <<got>> \o EnterLoop(r, rec).evs)
                  /\ UNCHANGED <<nreq, req, resp, repo, fence>>

\* await new Promise(resolve => setTimeout(resolve, 5000)) resolves.
Delay(r) ==
    /\ run[r].pc = "delay"
    /\ Step(r, EnterLoop(r, run[r]).run,
            << Ev("delay", "fire", "", "", PropagationDelayMs) >> \o EnterLoop(r, run[r]).evs)
    /\ UNCHANGED <<nreq, req, resp, repo, fence>>

\* await axios.post(body.evaluation_url, notificationPayload) returns: success
\* breaks out of the loop; a rejection is caught and starts the backoff timer.
\* (fails: what the endpoint may do with the POST; TRUE is a rejection)
Notify(r, fails) ==
    /\ run[r].pc = "notify"
    /\ \E fail \in fails :
         IF fail
         THEN Step(r, [run[r] EXCEPT !.pc = "backoff"],
                   << Fail("post", "", ""),
                      Ev("backoff", "start", "", "", BackoffMs(run[r].i)) >>)
         ELSE Step(r, OnDelivered(r, run[r]).run,
                   << Ok("post", "", "", run[r].i + 1) >> \o OnDelivered(r, run[r]).evs)
    /\ UNCHANGED <<nreq, req, resp, repo, fence>>

\* The backoff timer fires; i++ and the loop test.
Backoff(r) ==
    /\ run[r].pc = "backoff"
    /\ LET rec == [run[r] EXCEPT !.i = @ + 1]
       IN  Step(r, LoopHead(r, rec).run,
                << Ev("backoff", "fire", "", "", BackoffMs(run[r].i)) >> \o LoopHead(r, rec).evs)
    /\ UNCHANGED <<nreq, req, resp, repo, fence>>

\* ------------------------------------------------------------------ system
Bodies ==
    { [secret |-> s, task |-> t, round |-> n, email |-> c.email,
       nonce |-> c.nonce, evaluation_url |-> c.evaluation_url] :
      s \in Secrets, t \in Tasks, n \in Rounds, c \in Callers }
\* Requests of one caller that all name one task.
RacingBodies ==
    {body \in Bodies : body.task = RacingTask /\ body.email = RacingCaller}

\* A return of an awaited call or timer of some run, up to the first
\* notification attempt.
RunStep ==
    \/ \E r \in Runs : Identity(r)
    \/ \E r \in Runs : R1Generate(r)
    \/ \E r \in Runs : R1Create(r)
    \/ \E r \in Runs, k \in 1..Len(R1Writes) : R1Write(r, k)
    \/ \E r \in Runs : R1Pages(r)
    \/ \E r \in Runs : R2Get(r)
    \/ \E r \in Runs : R2Generate(r)
    \/ \E r \in Runs : R2Upsert(r)
    \/ \E r \in Runs : GetCommit(r)
    \/ \E r \in Runs : Delay(r)

Next ==
    \/ \E body \in Bodies : PostBuild(body, MaxRuns)
    \/ RunStep
    \/ \E r \in Runs : Notify(r, BOOLEAN)
    \/ \E r \in Runs : Backoff(r)

Spec == Init /\ [][Next]_vars

\* The return of the call or timer that run r awaits.
RunNext(r) ==
    \/ Identity(r)
    \/ R1Generate(r)
    \/ R1Create(r)
    \/ \E k \in 1..Len(R1Writes) : R1Write(r, k)
    \/ R1Pages(r)
    \/ R2Get(r)
    \/ R2Generate(r)
    \/ R2Upsert(r)
    \/ GetCommit(r)
    \/ Delay(r)
    \/ Notify(r, BOOLEAN)
    \/ Backoff(r)

\* Every awaited call returns, with success or with failure, and every timer
\* fires.
CallsReturn == \A r \in Runs : WF_vars(RunNext(r))

SpecLive == Init /\ [][Next]_vars /\ CallsReturn

\* The same server receiving several requests for one task, whose runs race
\* on one project, with an evaluation endpoint that accepts every POST (so that
\* no backoff timer is ever started).
NextRacing ==
    \/ \E body \in RacingBodies : PostBuild(body, MaxRacing)
    \/ RunStep
    \/ \E r \in Runs : Notify(r, {FALSE})

SpecRacing == Init /\ [][NextRacing]_vars

\* ------------------------------------------------------------ fence strip
\* Text is a sequence of characters. BQ is the backquote character, which a
\* string of this language cannot hold.
BQ == "bq"
Chars == {"x", " ", "\n", BQ}
\* The white space String.prototype.trim removes, as far as Chars has it.
WhiteSpace == {" ", "\n"}
\* The marker: three backquotes and html.
Marker == << BQ, BQ, BQ, "h", "t", "m", "l" >>
Fence == << BQ, BQ, BQ >>

\* s.startsWith(p)
StartsWith(s, p) == Len(s) >= Len(p) /\ SubSeq(s, 1, Len(p)) = p

\* An index argument of substring: below 0 is 0, above the length is the length.
Clamp(n, len) == IF n < 0 THEN 0 ELSE IF n > len THEN len ELSE n

\* s.substring(a, b): the characters from the smaller to the larger of the two
\* clamped indices (0-based, end exclusive).
Substring(s, a, b) ==
    LET x == Clamp(a, Len(s))
        y == Clamp(b, Len(s))
    IN  IF x <= y THEN SubSeq(s, x + 1, y) ELSE SubSeq(s, y + 1, x)

RECURSIVE TrimStart(_)
TrimStart(s) ==
    IF s # <<>> /\ Head(s) \in WhiteSpace THEN TrimStart(Tail(s)) ELSE s

RECURSIVE TrimEnd(_)
TrimEnd(s) ==
    IF s # <<>> /\ s[Len(s)] \in WhiteSpace
    THEN TrimEnd(SubSeq(s, 1, Len(s) - 1))
    ELSE s

\* s.trim()
Trim(s) == TrimEnd(TrimStart(s))

\* if (generatedHtml.startsWith(<marker>)) {
\*     generatedHtml = generatedHtml.substring(7, generatedHtml.length - 3).trim(); }
StripFence(s) ==
    IF StartsWith(s, Marker) THEN Trim(Substring(s, 7, Len(s) - 3)) ELSE s

\* The generation responses studied: an opening, an interior of at most MaxLen
\* characters, a closing.
Texts(n) == UNION { [1..k -> Chars] : k \in 0..n }
Openings == { <<>>, Marker, Marker \o << "\n" >>, Fence }
Closings == { <<>>, Fence, << "\n" >> \o Fence, Fence \o << "\n" >> }
Responses == { o \o m \o c : o \in Openings, m \in Texts(MaxLen), c \in Closings }

InitFence ==
    /\ InitServer
    /\ \E t \in Responses : fence = [text |-> t, html |-> <<>>, done |-> FALSE]

\* let generatedHtml = response.text(); and the fence strip that follows it.
FenceStrip ==
    /\ ~fence.done
    /\ fence' = [fence EXCEPT !.html = StripFence(fence.text), !.done = TRUE]
    /\ UNCHANGED <<nreq, req, resp, run, log, repo>>

NextFence == FenceStrip

SpecFence == InitFence /\ [][NextFence]_vars

\* ------------------------------------------------------ history vocabulary
GenOps == {"generate"}
PubOps == {"identity", "create", "getfile", "upsert", "pages", "getcommit"}

Received == 1..nreq
Idx(r) == 1..Len(log[r])
Has(r, e) == \E k \in Idx(r) : log[r][k] = e
HasOp(r, ops, ev) == \E k \in Idx(r) : log[r][k].op \in ops /\ log[r][k].ev = ev
Count(r, ops, ev) == Cardinality({k \in Idx(r) : log[r][k].op \in ops /\ log[r][k].ev = ev})
Ended(r) == run[r].pc \in {"done", "aborted"}
Last(r) == log[r][Len(log[r])]

\* ------------------------------------------------------------------ claims

\* C1: a request whose secret differs from the configured secret is answered
\* 403, and no generation call, hosting-platform call or notification attempt
\* is ever made for it.
C1_RejectedDoesNothing ==
    \A r \in Received :
        req[r].secret # STUDENT_SECRET =>
            /\ resp[r] = 403
            /\ run[r].pc = "none"
            /\ \A k \in Idx(r) : log[r][k].op \notin GenOps \cup PubOps \cup {"post"}

\* A request with a wrong secret has been answered.
C1_Witness ==
    \E r \in Received :
        /\ req[r].secret # STUDENT_SECRET
        /\ Has(r, Ev("respond", "send", "", "", 403))

\* C2: for an accepted request the 200 acknowledgement is sent before the
\* first generation or publisher call of its run begins.
C2_AckBeforeCalls ==
    \A r \in Received :
        req[r].secret = STUDENT_SECRET =>
            \A k \in Idx(r) :
                (log[r][k].op \in GenOps \cup PubOps /\ log[r][k].ev = "call") =>
                    \E j \in 1..(k - 1) :
                        log[r][j] = Ev("respond", "send", "", "", 200)

\* An accepted request whose run has made generation and publisher calls.
C2_Witness ==
    \E r \in Received :
        /\ resp[r] = 200
        /\ HasOp(r, GenOps, "call")
        /\ HasOp(r, {"upsert"}, "call")

\* C3: a failed generation or publisher call is the last call of its run: the
\* run makes no further call, sends no notification and ends with the error
\* logged.
C3_FailureAborts ==
    \A r \in Received : \A k \in Idx(r) :
        (log[r][k].op \in GenOps \cup PubOps /\ log[r][k].ev = "fail") =>
            /\ run[r].pc = "aborted"
            /\ run[r].err = "build_error"
            /\ Len(log[r]) = k + 1
            /\ log[r][k + 1] = Ev("console", "build_error", "", "", 0)
            /\ ~HasOp(r, {"post"}, "call")

\* A run aborted by a failure in the middle of its publishing: the second file
\* write failed after the project was created and index.html written.
C3_Witness ==
    \E r \in Received :
        /\ run[r].pc = "aborted"
        /\ Has(r, Ok("create", req[r].task, "", 0))
        /\ HasOp(r, {"upsert"}, "ok")
        /\ Last(r) = Ev("console", "build_error", "", "", 0)
        /\ \E k \in Idx(r) : /\ log[r][k].op = "upsert" /\ log[r][k].ev = "fail"
                             /\ log[r][k].path = README

\* The index.html write of run r succeeded.
Wrote(r) ==
    \E k \in Idx(r) : /\ log[r][k].op = "upsert" /\ log[r][k].ev = "ok"
                      /\ log[r][k].path = INDEX
\* The commit of that write.
WriteVer(r) ==
    LET k == CHOOSE k \in Idx(r) : /\ log[r][k].op = "upsert" /\ log[r][k].ev = "ok"
                                   /\ log[r][k].path = INDEX
    IN  log[r][k].arg

\* C4: in a round-2 run the upsert is of index.html, carries exactly the token
\* the run's own get-file returned, and is issued once (no retry); when the
\* file's version is no longer that token as the platform handles the write,
\* the upsert fails and the run ends aborted, with no notification attempt.
C4_StaleTokenAborts ==
    \A r \in Received :
        req[r].round = 2 =>
            /\ Count(r, {"upsert"}, "call") <= 1
            /\ \A k \in Idx(r) :
                 (log[r][k].op = "upsert" /\ log[r][k].ev = "call") =>
                     /\ log[r][k].path = INDEX
                     /\ log[r][k].arg # 0
                     /\ \E j \in 1..(k - 1) :
                          log[r][j] = Ok("getfile", req[r].task, INDEX, log[r][k].arg)
            /\ \A k \in Idx(r) :
                 (log[r][k].op = "upsert" /\ log[r][k].ev \in {"ok", "fail"}) =>
                     /\ log[r][k - 1].op = "upsert" /\ log[r][k - 1].ev = "call"
                     /\ log[r][k - 1].arg # log[r][k].was =>
                          /\ log[r][k].ev = "fail"
                          /\ run[r].pc = "aborted"
                          /\ Len(log[r]) = k + 1
                          /\ ~HasOp(r, {"post"}, "call")

\* A round-2 run aborted at its upsert: the file's version had moved from the
\* token the run read.
C4_Witness ==
    \E r \in Received :
        /\ req[r].round = 2
        /\ run[r].pc = "aborted"
        /\ \E k \in Idx(r) :
             /\ log[r][k].op = "upsert" /\ log[r][k].ev = "fail"
             /\ log[r][k - 1].arg = run[r].sha
             /\ log[r][k - 1].arg # log[r][k].was

\* Two round-2 runs of one task that read index.html at the same version.
SameToken(r1, r2) ==
    /\ r1 # r2
    /\ req[r1].round = 2 /\ req[r2].round = 2
    /\ req[r1].task = req[r2].task
    /\ run[r1].sha # 0
    /\ run[r1].sha = run[r2].sha

\* Another run wrote index.html of r's task in a later commit than r did.
LaterWriter(r) ==
    \E q \in Received \ {r} :
        /\ req[q].task = req[r].task
        /\ \E k \in Idx(q) : /\ log[q][k].op = "upsert" /\ log[q][k].ev = "ok"
                             /\ log[q][k].path = INDEX
                             /\ log[q][k].arg > WriteVer(r)

\* C5: of two round-2 runs that read index.html at the same version, at most
\* one write succeeds; once r1's has, r2's upsert fails and r2 aborts with no
\* notification; after both have ended the file holds r1's document.
C5_TokenSerializes ==
    \A r1 \in Received, r2 \in Received :
        (SameToken(r1, r2) /\ Wrote(r1)) =>
            /\ ~Wrote(r2)
            /\ (HasOp(r2, {"upsert"}, "call") /\ run[r2].pc # "r2_upsert") =>
                 /\ HasOp(r2, {"upsert"}, "fail")
                 /\ run[r2].pc = "aborted"
                 /\ ~HasOp(r2, {"post"}, "call")
            /\ (Ended(r1) /\ Ended(r2) /\ ~LaterWriter(r1)) =>
                 /\ repo[req[r1].task].files[INDEX].content = run[r1].html
                 /\ repo[req[r1].task].files[INDEX].content # run[r2].html

\* Both runs read the same version; the first writer has notified, the later
\* writer's upsert has failed.
C5_Witness ==
    \E r1 \in Received, r2 \in Received :
        /\ SameToken(r1, r2)
        /\ Wrote(r1)
        /\ run[r1].pc = "done" /\ run[r1].success
        /\ HasOp(r2, {"upsert"}, "fail")
        /\ run[r2].pc = "aborted"

\* The notifier's part of the history of run r: deliveries, backoff timers and
\* the final-failure message, in order.
IsNotifierEv(e) == e.op \in {"post", "backoff"} \/ e = Ev("console", "final_failure", "", "", 0)
\* An event without what it carried: its kind, target and number only.
Bare(e) == [e EXCEPT !.url = "", !.data = NoPayload]
NotifierTrace(r) ==
    LET s == SelectSeq(log[r], IsNotifierEv) IN [k \in 1..Len(s) |-> Bare(s[k])]
IsPostResult(e) == e.op = "post" /\ e.ev \in {"ok", "fail"}
\* The results of the deliveries of run r so far, in order.
PostResults(r) ==
    LET s == SelectSeq(log[r], IsPostResult) IN [k \in 1..Len(s) |-> s[k].ev]
IsBackoffStart(e) == e.op = "backoff" /\ e.ev = "start"
\* The backoff waits of run r so far, in order, in milliseconds.
Waits(r) ==
    LET s == SelectSeq(log[r], IsBackoffStart) IN [k \in 1..Len(s) |-> s[k].arg]

\* C6: when the first 3 deliveries fail and the 4th succeeds, the notifier has
\* made exactly 4 attempts with waits of 1 s, 2 s and 4 s between them, in that
\* order, has recorded success and has logged no final failure.
C6_ThreeFailuresThenSuccess ==
    \A r \in Received :
        PostResults(r) = << "fail", "fail", "fail", "ok" >> =>
            /\ NotifierTrace(r) =
                 << Call("post", "", "", 1), Fail("post", "", ""),
                    Ev("backoff", "start", "", "", 1000), Ev("backoff", "fire", "", "", 1000),
                    Call("post", "", "", 2), Fail("post", "", ""),
                    Ev("backoff", "start", "", "", 2000), Ev("backoff", "fire", "", "", 2000),
                    Call("post", "", "", 3), Fail("post", "", ""),
                    Ev("backoff", "start", "", "", 4000), Ev("backoff", "fire", "", "", 4000),
                    Call("post", "", "", 4), Ok("post", "", "", 4) >>
            /\ run[r].success
            /\ run[r].pc = "done"
            /\ run[r].err = ""

\* A run delivered on its 4th attempt.
C6_Witness ==
    \E r \in Received :
        /\ PostResults(r) = << "fail", "fail", "fail", "ok" >>
        /\ run[r].pc = "done"

\* C7: the notifier never makes a 5th attempt; when every delivery has failed
\* and the run has ended, exactly 4 attempts were made, the final failure is
\* logged, and that message is the last thing the run did.
C7_FourAttemptsThenFinalFailure ==
    \A r \in Received :
        /\ Count(r, {"post"}, "call") <= MaxAttempts
        /\ (run[r].pc = "done" /\ ~HasOp(r, {"post"}, "ok")) =>
             /\ Count(r, {"post"}, "call") = 4
             /\ Count(r, {"post"}, "fail") = 4
             /\ run[r].err = "notify_failed"
             /\ Last(r) = Ev("console", "final_failure", "", "", 0)
        /\ Count(r, {"post"}, "fail") = 4 => run[r].pc \in {"backoff", "done"}
        /\ \A k \in Idx(r) :
             log[r][k] = Ev("console", "final_failure", "", "", 0) =>
                 k = Len(log[r]) /\ run[r].pc = "done"

\* A run whose 4 deliveries all failed and which has ended.
C7_Witness ==
    \E r \in Received :
        /\ PostResults(r) = << "fail", "fail", "fail", "fail" >>
        /\ run[r].pc = "done"

\* C8: the notifier waits only between attempts: the waits of a run are, in
\* order, 1 s, 2 s and 4 s, at most three of them, and none follows the 4th
\* failed attempt.
C8_WaitsOnlyBetweenAttempts ==
    \A r \in Received :
        /\ Len(Waits(r)) <= 3
        /\ \A k \in 1..Len(Waits(r)) : Waits(r)[k] = << 1000, 2000, 4000 >>[k]
        /\ \A k \in Idx(r) :
             IsBackoffStart(log[r][k]) =>
                 Cardinality({j \in 1..k : log[r][j] = Fail("post", "", "")}) < 4

\* C9: a successful delivery is the last thing a run does: no attempt and no
\* backoff wait follows it, a run delivers at most once, and the final failure
\* is logged only when all 4 attempts failed.
C9_SuccessStopsRetrying ==
    \A r \in Received :
        /\ \A k \in Idx(r) :
             (log[r][k].op = "post" /\ log[r][k].ev = "ok") =>
                 /\ k = Len(log[r])
                 /\ log[r][k].arg \in 1..MaxAttempts
                 /\ run[r].pc = "done"
                 /\ run[r].success
        /\ Count(r, {"post"}, "ok") <= 1
        /\ Has(r, Ev("console", "final_failure", "", "", 0)) =>
             /\ Count(r, {"post"}, "fail") = MaxAttempts
             /\ ~HasOp(r, {"post"}, "ok")

\* A run delivered on its second attempt, after one backoff wait.
C9_Witness ==
    \E r \in Received :
        /\ PostResults(r) = << "fail", "ok" >>
        /\ run[r].pc = "done"

\* The calls of run r issued before position k of its history.
CallsBefore(r, k, op) ==
    {j \in 1..(k - 1) : log[r][j].op = op /\ log[r][j].ev = "call"}

\* C10: when a round-1 run issues its read of the latest commit, it has made
\* exactly one create-project call (named after the task, public), exactly
\* three upsert calls, one each for index.html, README.md and LICENSE and none
\* with a version token, and exactly one enable-hosting call, none of which
\* failed.
C10_Round1Publishes ==
    \A r \in Received : \A k \in Idx(r) :
        (req[r].round = 1 /\ log[r][k].op = "getcommit" /\ log[r][k].ev = "call") =>
            /\ Cardinality(CallsBefore(r, k, "create")) = 1
            /\ \A j \in CallsBefore(r, k, "create") :
                 log[r][j].repo = req[r].task /\ log[r][j].vis = "public"
            /\ Cardinality(CallsBefore(r, k, "upsert")) = 3
            /\ \A p \in Paths :
                 Cardinality({j \in CallsBefore(r, k, "upsert") : log[r][j].path = p}) = 1
            /\ \A j \in CallsBefore(r, k, "upsert") :
                 log[r][j].arg = 0 /\ log[r][j].repo = req[r].task
            /\ Cardinality(CallsBefore(r, k, "pages")) = 1
            /\ \A j \in 1..(k - 1) : log[r][j].ev # "fail"
            /\ repo[req[r].task].exists
            /\ \A p \in Paths : repo[req[r].task].files[p].ver # 0
            /\ repo[req[r].task].pages

\* A round-1 run none of whose calls failed, ended after its notification.
C10_Witness ==
    \E r \in Received :
        /\ req[r].round = 1
        /\ run[r].pc = "done"
        /\ run[r].success
        /\ ~HasOp(r, GenOps \cup PubOps \cup {"post"}, "fail")

\* The run of request r has started and has not ended.
InFlight(r) == run[r].pc \notin {"none", "done", "aborted"}

\* C11: every accepted request has started exactly one background run (one
\* invocation of processBuildRequest, which issues one identity call), whatever
\* requests came before it, and a rejected request has started none.
C11_OneRunPerAcceptedRequest ==
    \A r \in Received :
        IF req[r].secret = STUDENT_SECRET
        THEN /\ run[r].pc # "none"
             /\ Count(r, {"identity"}, "call") = 1
        ELSE /\ run[r].pc = "none"
             /\ Count(r, {"identity"}, "call") = 0

\* Two accepted submissions of the same task and round, both in flight.
C11_Witness ==
    \E r1 \in Received, r2 \in Received :
        /\ r1 # r2
        /\ req[r1].task = req[r2].task /\ req[r1].round = req[r2].round
        /\ InFlight(r1) /\ InFlight(r2)
        /\ HasOp(r1, GenOps, "call") /\ HasOp(r2, GenOps, "call")

\* C12: every request has been sent exactly one response, 403 or 200 as the
\* secret comparison decides; the response of an accepted request stays the 200
\* whatever its run does afterwards, and a run that failed sends nothing to
\* the evaluation endpoint.
C12_OneResponseOnly ==
    \A r \in Received :
        /\ Count(r, {"respond"}, "send") = 1
        /\ resp[r] = (IF req[r].secret = STUDENT_SECRET THEN 200 ELSE 403)
        /\ \A k \in Idx(r) : log[r][k].op = "respond" => log[r][k].arg = resp[r]
        /\ run[r].pc = "aborted" => ~HasOp(r, {"post"}, "call")
        /\ run[r].err = "notify_failed" =>
             /\ ~HasOp(r, {"post"}, "ok")
             /\ Last(r) = Ev("console", "final_failure", "", "", 0)

\* An accepted request whose run failed in its publishing after the 200.
C12_Witness ==
    \E r \in Received :
        /\ resp[r] = 200
        /\ run[r].pc = "aborted"
        /\ HasOp(r, {"upsert"}, "fail")

\* The position in the history of run r of its get-latest-commit return.
CommitRead(r) == {k \in Idx(r) : log[r][k].op = "getcommit" /\ log[r][k].ev = "ok"}

\* C13: once the latest commit has been read, a round-1 run starts one 5000 ms
\* delay and makes its first notification attempt only when the delay has
\* fired; a round-2 run makes its first attempt at once, with no delay.
C13_DelayOnlyInRoundOne ==
    \A r \in Received : \A k \in CommitRead(r) :
        /\ req[r].round = 1 =>
             /\ log[r][k + 1] = Ev("delay", "start", "", "", PropagationDelayMs)
             /\ Count(r, {"delay"}, "start") = 1
             /\ Count(r, {"delay"}, "fire") <= 1
             /\ Len(log[r]) >= k + 2 =>
                  /\ log[r][k + 2] = Ev("delay", "fire", "", "", PropagationDelayMs)
                  /\ Bare(log[r][k + 3]) = Call("post", "", "", 1)
             /\ \A j \in Idx(r) : log[r][j].op = "post" => j >= k + 3
        /\ req[r].round = 2 =>
             /\ Bare(log[r][k + 1]) = Call("post", "", "", 1)
             /\ ~HasOp(r, {"delay"}, "start")
             /\ ~HasOp(r, {"delay"}, "fire")

\* A round-1 run has waited and made its first attempt.
C13_Witness ==
    \E r \in Received :
        /\ req[r].round = 1
        /\ HasOp(r, {"delay"}, "fire")
        /\ HasOp(r, {"post"}, "call")

\* A round-2 run has read the latest commit and made its first attempt.
C13_WitnessRound2 ==
    \E r \in Received :
        /\ req[r].round = 2
        /\ CommitRead(r) # {}
        /\ HasOp(r, {"post"}, "call")

\* The notification attempts of run r so far.
Posts(r) == {k \in Idx(r) : log[r][k].op = "post" /\ log[r][k].ev = "call"}

\* C14: every payload a run sends echoes the email, task, round and nonce of
\* the run's own request, carries the two addresses computed from the resolved
\* owner and the request's task and the commit that the run's own
\* get-latest-commit call returned, and goes to the request's evaluation_url;
\* all attempts of a run send the same payload to the same address.
C14_PayloadIsEcho ==
    \A r \in Received : \A k \in Posts(r) :
        LET sent == log[r][k] IN
        /\ sent.url = req[r].evaluation_url
        /\ sent.data.email = req[r].email
        /\ sent.data.task = req[r].task
        /\ sent.data.round = req[r].round
        /\ sent.data.nonce = req[r].nonce
        /\ sent.data.repo_url = << "https://github.com/", Login, "/", req[r].task >>
        /\ sent.data.pages_url = << "https://", Login, ".github.io/", req[r].task, "/" >>
        /\ \E c \in CommitRead(r) :
             /\ c < k
             /\ Has(r, Ok("identity", "", "", 0))
             /\ sent.data.commit_sha = log[r][c].arg
        /\ \A j \in Posts(r) : log[r][j].data = sent.data /\ log[r][j].url = sent.url

\* A run has sent its payload a second time.
C14_Witness ==
    \E r \in Received :
        /\ Cardinality(Posts(r)) >= 2
        /\ req[r].nonce = "n2"

\* C15: a response that starts with the marker comes out as its interior, the
\* marker in front and the fence behind removed and nothing else; any other
\* response comes out as it went in.
C15_StripIsExact ==
    fence.done =>
        IF StartsWith(fence.text, Marker)
        THEN fence.text = Marker \o fence.html \o Fence
        ELSE fence.html = fence.text

\* C16: every notification attempt of a run comes after a successful generation
\* call and a successful upsert of index.html by the same run, and a request
\* whose round is neither 1 nor 2 makes no notification attempt.
C16_OnlyTwoRounds ==
    \A r \in Received :
        /\ \A k \in Posts(r) :
             /\ \E g \in 1..k : log[r][g].op = "generate" /\ log[r][g].ev = "ok"
             /\ \E u \in 1..k : /\ log[r][u].op = "upsert" /\ log[r][u].ev = "ok"
                                /\ log[r][u].path = INDEX
        /\ req[r].round \notin {1, 2} => Posts(r) = {}

\* Run r has been refused / has been granted the creation of its project.
CreateFailed(r) == Has(r, Fail("create", req[r].task, ""))
Created(r) == Has(r, Ok("create", req[r].task, "", 0))

\* C17: a round-1 run whose create-project call fails is aborted there: it
\* issues no file write, no enable-hosting call and no notification attempt.
\* Of the round-1 runs for one task at most one creates the project, and only
\* a run that created it makes a notification attempt.
C17_DuplicateCreateAborts ==
    \A r \in Received : req[r].round = 1 =>
        /\ CreateFailed(r) =>
             /\ run[r].pc = "aborted"
             /\ Last(r) = Ev("console", "build_error", "", "", 0)
             /\ ~HasOp(r, {"upsert", "pages", "getcommit", "post"}, "call")
        /\ Created(r) =>
             \A q \in Received \ {r} :
                 (req[q].round = 1 /\ req[q].task = req[r].task) => ~Created(q)
        /\ Posts(r) # {} => Created(r)

\* Two round-1 runs for one task: one created the project and has notified,
\* the other was refused the creation while the first was still at work.
C17_Witness ==
    \E r \in Received, q \in Received :
        /\ r # q
        /\ req[r].round = 1 /\ req[q].round = 1 /\ req[r].task = req[q].task
        /\ Created(r) /\ HasOp(r, {"post"}, "ok")
        /\ CreateFailed(q) /\ run[q].pc = "aborted"
        /\ HasOp(q, {"generate"}, "ok")

\* The external calls of round 1 in their order: operation and path.
R1Order ==
    << <<"identity", "">>, <<"generate", "">>, <<"create", "">>,
       <<"upsert", INDEX>>, <<"upsert", README>>, <<"upsert", LICENSE>>,
       <<"pages", "">>, <<"getcommit", "">> >>
IsPrefix(s, t) == Len(s) <= Len(t) /\ s = SubSeq(t, 1, Len(s))
IsExternalCall(e) == e.ev = "call" /\ e.op \in GenOps \cup PubOps
\* The generation and platform calls run r has issued, in order.
ExternalCalls(r) ==
    LET s == SelectSeq(log[r], IsExternalCall)
    IN  [k \in 1..Len(s) |-> <<s[k].op, s[k].path>>]
IsUpsertOk(e) == e.op = "upsert" /\ e.ev = "ok"
\* The files run r has written, in order.
FilesWritten(r) ==
    LET s == SelectSeq(log[r], IsUpsertOk) IN [k \in 1..Len(s) |-> s[k].path]

\* C18: the external calls of a round-1 run are an initial part of identity,
\* generation, create-project, upsert index.html, upsert README.md, upsert
\* LICENSE, enable-hosting, get-latest-commit, each issued when the one before
\* it has returned; after a generation failure no project has been created;
\* the files written are an initial part of (index.html, README.md, LICENSE),
\* and hosting is enabled only when all three are written.
C18_Round1CallOrder ==
    \A r \in Received : req[r].round = 1 =>
        /\ IsPrefix(ExternalCalls(r), R1Order)
        /\ \A k \in Idx(r) :
             (IsExternalCall(log[r][k]) /\ log[r][k].op # "identity") =>
                 /\ log[r][k - 1].ev = "ok"
                 /\ <<log[r][k - 1].op, log[r][k - 1].path>> =
                        R1Order[Len(ExternalCalls(r)) -
                                Cardinality({j \in k..Len(log[r]) :
                                                IsExternalCall(log[r][j])})]
        /\ HasOp(r, {"generate"}, "fail") =>
             /\ run[r].pc = "aborted"
             /\ ~HasOp(r, {"create", "upsert", "pages"}, "call")
        /\ IsPrefix(FilesWritten(r), << INDEX, README, LICENSE >>)
        /\ HasOp(r, {"pages"}, "ok") => FilesWritten(r) = << INDEX, README, LICENSE >>
        /\ (HasOp(r, {"create"}, "ok") /\ repo[req[r].task].pages) =>
               FilesWritten(r) = << INDEX, README, LICENSE >>

\* A round-1 run stopped between its second and its third write.
C18_Witness ==
    \E r \in Received :
        /\ req[r].round = 1
        /\ FilesWritten(r) = << INDEX, README >>
        /\ run[r].pc = "aborted"
        /\ ~repo[req[r].task].pages

\* Nothing the platform holds goes away in a step.
NothingDeleted ==
    \A t \in Tasks :
        /\ repo[t].exists => repo'[t].exists
        /\ repo[t].pages => repo'[t].pages
        /\ \A p \in Paths : repo[t].files[p].ver # 0 => repo'[t].files[p].ver # 0

\* What a step of the run of request r may touch.
RunFrame(r) ==
    LET T == req'[r].task
        new == (Len(log[r]) + 1)..Len(log'[r])
    IN  /\ \A t \in Tasks \ {T} : repo'[t] = repo[t]
        /\ \A k \in new :
             log'[r][k].op \in {"create", "upsert", "pages"} => log'[r][k].repo = T
        /\ req'[r].round = 2 =>
             /\ repo'[T].exists = repo[T].exists
             /\ repo'[T].pages = repo[T].pages
             /\ repo'[T].files[README] = repo[T].files[README]
             /\ repo'[T].files[LICENSE] = repo[T].files[LICENSE]
             /\ \A k \in new : log'[r][k].op \notin {"create", "pages"}
             /\ \A k \in new : log'[r][k].op = "upsert" => log'[r][k].path = INDEX
             /\ (run[r].pc = "r2_get" /\ repo[T].files[INDEX].ver = 0) =>
                  /\ run'[r].pc = "aborted"
                  /\ repo' = repo
             /\ HasOp(r, {"getfile"}, "fail") => repo' = repo

\* C19: no step deletes a project or a file or disables hosting; a step of a
\* run for task T changes no project but T and names T in every create, upsert
\* and enable-hosting call; a step of a round-2 run leaves README.md, LICENSE,
\* the hosting flag and the existence of T as they are and writes only
\* index.html; a round-2 run that finds no index.html is aborted by its read
\* and changes nothing.
C19_Frame ==
    [][ /\ NothingDeleted
        /\ \A r \in Runs : log'[r] # log[r] => RunFrame(r) ]_vars

\* A round-2 run has replaced index.html; README.md and LICENSE are as the
\* earlier round 1 left them.
C19_Witness ==
    \E r \in Received :
        /\ req[r].round = 2
        /\ HasOp(r, {"upsert"}, "ok")
        /\ repo[req[r].task].files[INDEX].ver = 4
        /\ repo[req[r].task].files[README] = Built.files[README]
        /\ repo[req[r].task].files[LICENSE] = Built.files[LICENSE]

\* The successful writes of run r.
OwnWrites(r) == {k \in Idx(r) : IsUpsertOk(log[r][k])}

\* C20: whatever other runs do to the same project meanwhile, the commit a
\* round-1 or round-2 run reports is a commit of the project no older than
\* any write the run has made: the run's last write or a later commit.
C20_ReportedCommitNotStale ==
    \A r \in Received : req[r].round \in {1, 2} =>
        \A k \in Posts(r) :
            /\ OwnWrites(r) # {}
            /\ \A u \in OwnWrites(r) :
                 u < k /\ log[r][u].arg <= log[r][k].data.commit_sha
            /\ log[r][k].data.commit_sha <= repo[req[r].task].head

\* A run reports a commit that another run made after the run's own write.
C20_Witness ==
    \E r \in Received, q \in Received :
        /\ r # q
        /\ req[r].round = 2
        /\ \E k \in Posts(r), w \in OwnWrites(q) :
             /\ log[r][k].data.commit_sha = log[q][w].arg
             /\ \A u \in OwnWrites(r) : log[r][u].arg < log[r][k].data.commit_sha

\* The three ways a run ends.
AbortedAndLogged(r) ==
    /\ run[r].pc = "aborted"
    /\ Last(r) = Ev("console", "build_error", "", "", 0)
NotifiedOk(r) ==
    /\ run[r].pc = "done" /\ run[r].success
    /\ Last(r).op = "post" /\ Last(r).ev = "ok"
NotificationExhausted(r) ==
    /\ run[r].pc = "done" /\ ~run[r].success
    /\ Count(r, {"post"}, "fail") = MaxAttempts
    /\ Last(r) = Ev("console", "final_failure", "", "", 0)

\* C21: when every awaited call returns and every timer fires, every run that
\* has started ends, and it ends aborted and logged, notified, or with its
\* notification exhausted after 4 attempts; a run in flight always awaits a
\* call or a timer whose return lets it go on.
C21_RunsTerminate ==
    \A r \in Runs :
        /\ InFlight(r) ~> Ended(r)
        /\ [](IF Ended(r)
              THEN /\ \/ AbortedAndLogged(r)
                      \/ NotifiedOk(r)
                      \/ NotificationExhausted(r)
                   /\ ~ENABLED RunNext(r)
              ELSE InFlight(r) => ENABLED RunNext(r))

\* A round-1 run has ended with its notification exhausted.
C21_Witness ==
    \E r \in Received :
        /\ req[r].round = 1
        /\ NotificationExhausted(r)
        /\ HasOp(r, {"delay"}, "fire")
=============================================================================
